---- MODULE Spec2Model ----
(***************************************************************************)
(* CyberSentinel (src/app.py): a Streamlit script that audits an email     *)
(* address and an optional password.  Every widget interaction re-runs     *)
(* the whole script; the only state that survives a rerun is the widget    *)
(* values and st.session_state['run'].                                     *)
(*                                                                         *)
(* Strings that the code inspects character by character (digests, range   *)
(* response bodies, passwords) are sequences of one-character strings.     *)
(* Strings the code only compares or copies (emails, breach names, tags)   *)
(* are TLA+ strings.                                                       *)
(***************************************************************************)
EXTENDS Integers, Sequences, FiniteSets, TLC

VARIABLES
    \* ---- the Streamlit session (specification Spec) ----
    run,            \* st.session_state.get('run'): TRUE once set
    email_input,    \* value of the "Target Email Address" text input
    pass_input,     \* value of the "Password Check" text input (characters)
    event,          \* the interaction that triggered the last rerun
    remote,         \* behaviour of the two remote services during the last rerun
    net,            \* outbound requests issued by the last rerun
    live,           \* what get_real_breaches returned in the last rerun
    breaches,       \* the script's variable breaches after FETCH DATA
    is_sim,         \* the script's variable is_sim
    risk_score,     \* the script's variable risk_score
    leaks,          \* the script's variable leaks (tab3)
    ui,             \* what the last rerun rendered
    \* ---- one call of check_password_pwned (specification SpecPwned) ----
    p_password, p_res, p_request, p_ret, p_pc,
    \* ---- one call of calculate_risk (specification SpecRisk) ----
    r_breaches, r_ret, r_pc,
    \* ---- one call of get_real_breaches (specification SpecBreach) ----
    b_email, b_response, b_ret, b_pc

appVars    == <<run, email_input, pass_input, event, remote, net, live,
                breaches, is_sim, risk_score, leaks, ui>>
pwnedVars  == <<p_password, p_res, p_request, p_ret, p_pc>>
riskVars   == <<r_breaches, r_ret, r_pc>>
breachVars == <<b_email, b_response, b_ret, b_pc>>
vars       == <<appVars, pwnedVars, riskVars, breachVars>>

----------------------------------------------------------------------------
\* Bounds of the model.

\* longest range response body, in lines
MaxLines == 2
\* longest breach list handed to calculate_risk
MaxBreaches == 2
\* most data-class tags in one breach record handed to calculate_risk
MaxTags == 2
\* most source entries in one breach-directory response
MaxSources == 2

----------------------------------------------------------------------------
\* Generic helpers.

Min(a, b) == IF a <= b THEN a ELSE b

\* all sequences over S of length 0..n
SeqsUpTo(S, n) == UNION {[1..k -> S] : k \in 0..n}

\* needle occurs in hay as a contiguous run of characters
Contains(hay, needle) ==
    \E i \in 1..(Len(hay) - Len(needle) + 1) :
        SubSeq(hay, i, i + Len(needle) - 1) = needle

\* Python's sentinel None, where it stands for a string
None == "None"

----------------------------------------------------------------------------
\* hashlib.sha1(password.encode('utf-8')).hexdigest() for the passwords of
\* the model: the real digests, lowercase as hexdigest() returns them.
\* pass590 and pass1062 share their first characters, password123 does not.

PwPassword123 == <<"p","a","s","s","w","o","r","d","1","2","3">>
PwPass590     == <<"p","a","s","s","5","9","0">>
PwPass1062    == <<"p","a","s","s","1","0","6","2">>

Passwords == {PwPassword123, PwPass590, PwPass1062}

Sha1Hex(password) ==
    CASE password = PwPassword123 ->
           <<"c","b","f","d","a","c","6","0","0","8","f","9","c","a","b","4","0","8","3","7",
             "8","4","c","b","d","1","8","7","4","f","7","6","6","1","8","d","2","a","9","7">>
      [] password = PwPass590 ->
           <<"6","2","5","c","d","9","e","4","c","8","e","8","6","9","f","0","1","a","8","7",
             "2","b","5","1","a","9","6","9","d","1","f","3","e","b","9","6","8","9","2","c">>
      [] password = PwPass1062 ->
           <<"6","2","5","c","d","9","9","f","2","3","4","4","7","8","c","9","8","5","2","d",
             "c","5","3","2","7","5","b","9","f","7","3","8","2","f","4","3","b","f","3","5">>

\* str.upper() on the characters a digest can hold
UpperChar(c) ==
    CASE c = "a" -> "A" [] c = "b" -> "B" [] c = "c" -> "C"
      [] c = "d" -> "D" [] c = "e" -> "E" [] c = "f" -> "F"
      [] OTHER -> c

Upper(s) == [i \in DOMAIN s |-> UpperChar(s[i])]

\* variant: the digest is used as hexdigest() returns it, without .upper()
Sha1PassNoUpper(password) == Sha1Hex(password)

\* sha1pass, and sha1pass[:5], sha1pass[5:]
Sha1Pass(password) == Upper(Sha1Hex(password))

PrefixLen == 5

Prefix(password) == SubSeq(Sha1Pass(password), 1, PrefixLen)

Suffix(password) ==
    SubSeq(Sha1Pass(password), PrefixLen + 1, Len(Sha1Pass(password)))

\* f"https://api.pwnedpasswords.com/range/{prefix}"
RangeEndpoint ==
    <<"h","t","t","p","s",":","/","/","a","p","i",".","p","w","n","e","d","p","a","s",
      "s","w","o","r","d","s",".","c","o","m","/","r","a","n","g","e","/">>

\* variant: the whole digest is put in the URL instead of its prefix
RangeUrlFullDigest(password) == RangeEndpoint \o Sha1Pass(password)

RangeUrl(password) == RangeEndpoint \o Prefix(password)

----------------------------------------------------------------------------
\* str.splitlines(), str.split(':') and int() on the characters of the model.

\* index of the first sep in s at or after position from, Len(s) + 1 if none
RECURSIVE NextSep(_, _, _)
NextSep(s, sep, from) ==
    IF from > Len(s) THEN Len(s) + 1
    ELSE IF s[from] = sep THEN from
    ELSE NextSep(s, sep, from + 1)

\* pieces of s between occurrences of sep (always at least one piece)
RECURSIVE SplitFrom(_, _, _)
SplitFrom(s, sep, from) ==
    LET j == NextSep(s, sep, from)
    IN  IF j > Len(s) THEN <<SubSeq(s, from, Len(s))>>
        ELSE <<SubSeq(s, from, j - 1)>> \o SplitFrom(s, sep, j + 1)

Split(s, sep) == SplitFrom(s, sep, 1)

\* splitlines: like split on the line break, but the empty string has no
\* line and a final line break does not open a further, empty line
SplitLines(text) ==
    LET pieces == Split(text, "\n")
    IN  IF pieces[Len(pieces)] = <<>>
        THEN SubSeq(pieces, 1, Len(pieces) - 1)
        ELSE pieces

Digits == {"0","1","2","3","4","5","6","7","8","9"}

DigitVal(c) ==
    CASE c = "0" -> 0 [] c = "1" -> 1 [] c = "2" -> 2 [] c = "3" -> 3
      [] c = "4" -> 4 [] c = "5" -> 5 [] c = "6" -> 6 [] c = "7" -> 7
      [] c = "8" -> 8 [] c = "9" -> 9

RECURSIVE DecVal(_, _)
DecVal(s, acc) ==
    IF s = <<>> THEN acc ELSE DecVal(Tail(s), 10 * acc + DigitVal(Head(s)))

IsDigits(s) == Len(s) > 0 /\ \A i \in DOMAIN s : s[i] \in Digits

\* int(count) succeeds: an optional sign followed by decimal digits
IntParses(s) ==
    \/ IsDigits(s)
    \/ Len(s) > 1 /\ s[1] \in {"-", "+"} /\ IsDigits(Tail(s))

IntOf(s) ==
    IF s[1] = "-" THEN 0 - DecVal(Tail(s), 0)
    ELSE IF s[1] = "+" THEN DecVal(Tail(s), 0)
    ELSE DecVal(s, 0)

----------------------------------------------------------------------------
\* check_password_pwned

\* the value of "except: return -1"
PwnedFailure == 0 - 1

\* the for loop over res.text.splitlines(): returned is FALSE when the loop
\* ends without a return statement
RECURSIVE ScanLines(_, _)
ScanLines(lines, suffix) ==
    IF lines = <<>> THEN [returned |-> FALSE, value |-> 0]
    ELSE LET parts == Split(Head(lines), ":")
         IN  IF Len(parts) # 2
             THEN [returned |-> TRUE, value |-> PwnedFailure]   \* h, count = ... raises
             ELSE IF parts[1] = suffix
                  THEN IF IntParses(parts[2])
                       THEN [returned |-> TRUE, value |-> IntOf(parts[2])]
                       ELSE [returned |-> TRUE, value |-> PwnedFailure]  \* int(count) raises
                  ELSE ScanLines(Tail(lines), suffix)

check_password_pwned(password, res) ==
    IF res.raises THEN PwnedFailure
    ELSE IF res.status_code = 200
         THEN LET r == ScanLines(SplitLines(res.text), Suffix(password))
              IN  IF r.returned THEN r.value ELSE 0
         ELSE 0

----------------------------------------------------------------------------
\* Behaviours of the range endpoint: requests.get raises (connection error,
\* timeout), or a response arrives with a status code and a body.

Lower(s) ==
    [i \in DOMAIN s |->
        CASE s[i] = "A" -> "a" [] s[i] = "B" -> "b" [] s[i] = "C" -> "c"
          [] s[i] = "D" -> "d" [] s[i] = "E" -> "e" [] s[i] = "F" -> "f"
          [] OTHER -> s[i]]

\* a suffix that belongs to none of the passwords
OtherSuffix == [i \in 1..35 |-> "0"]

SuffixCandidates ==
    {Suffix(p) : p \in Passwords} \cup {Lower(Suffix(PwPassword123)), OtherSuffix}

CountStrings == {<<"3","7">>, <<"5","0","0","0","0">>, <<"0">>, <<"3","x">>}

\* lines that do not split into exactly two parts
BrokenLines == {<<>>, <<"F","F">>, <<"F","F",":","1",":","2">>}

RangeLines ==
    {s \o <<":">> \o c : s \in SuffixCandidates, c \in CountStrings} \cup BrokenLines

RECURSIVE JoinLines(_)
JoinLines(ls) ==
    IF ls = <<>> THEN <<>>
    ELSE IF Len(ls) = 1 THEN Head(ls)
    ELSE Head(ls) \o <<"\n">> \o JoinLines(Tail(ls))

RangeTexts == {JoinLines(ls) : ls \in SeqsUpTo(RangeLines, MaxLines)}

RangeRaises == [raises |-> TRUE, status_code |-> 0, text |-> <<>>]

RangeResponses ==
    {RangeRaises} \cup
    {[raises |-> FALSE, status_code |-> sc, text |-> t] :
        sc \in {200, 404}, t \in RangeTexts}

----------------------------------------------------------------------------
\* Breach records are Python dicts: functions from key names to values.

\* dict.get(key, default)
Get(d, key, default) == IF key \in DOMAIN d THEN d[key] ELSE default

get_mock_breaches ==
    << [Name |-> "LinkedIn", BreachDate |-> "2016-05-17",
        DataClasses |-> <<"Email", "Passwords", "Job titles">>,
        Description |-> "164 Million accounts exposed in massive professional network hack."],
       [Name |-> "Adobe", BreachDate |-> "2013-10-04",
        DataClasses |-> <<"Email", "Hints", "Usernames">>,
        Description |-> "153 Million accounts exposed affecting Creative Cloud users."],
       [Name |-> "Zomato", BreachDate |-> "2017-05-18",
        DataClasses |-> <<"Email", "Passwords">>,
        Description |-> "17 Million user records leaked from food delivery giant."],
       [Name |-> "Canva", BreachDate |-> "2019-05-24",
        DataClasses |-> <<"Email", "Names", "Locations">>,
        Description |-> "Graphic design platform database compromised."] >>

----------------------------------------------------------------------------
\* calculate_risk

\* variant: "Password" is weighed like "Passwords"
WeightNearMatch(dtype) ==
    CASE dtype \in {"Passwords", "Password"} -> 30
      [] dtype = "Email"     -> 10
      [] dtype = "Phone"     -> 50
      [] OTHER               -> 15

\* weights.get(dtype, 15)
Weight(dtype) ==
    CASE dtype = "Passwords" -> 30
      [] dtype = "Email"     -> 10
      [] dtype = "Phone"     -> 50
      [] OTHER               -> 15

\* the inner loop: for dtype in b.get('DataClasses', [])
RECURSIVE AddTags(_, _)
AddTags(score, tags) ==
    IF tags = <<>> THEN score
    ELSE AddTags(score + Weight(Head(tags)), Tail(tags))

\* the outer loop: for b in breaches
RECURSIVE AddBreaches(_, _)
AddBreaches(score, bs) ==
    IF bs = <<>> THEN score
    ELSE AddBreaches(AddTags(score, Get(Head(bs), "DataClasses", <<>>)), Tail(bs))

\* variant: the total is returned without min(score, 100)
CalculateRiskUnclamped(bs) == AddBreaches(0, bs)

calculate_risk(bs) == Min(AddBreaches(0, bs), 100)

----------------------------------------------------------------------------
\* get_real_breaches
\*
\* A behaviour of the breach directory is a record
\*   raises : requests.get raises (connection error, timeout)
\*   body   : what response.json() makes of the body
\*     type    "invalid" (json() raises), "array" (a JSON value that is not
\*             an object) or "object"
\*     success "absent", "true" or "false"
\*     sources type "absent", "number" or "list", and the list's entries
\* A source entry is a bare string [type |-> "str", value |-> name] or an
\* object [type |-> "dict", fields |-> dict].

BreachEndpoint == "https://leakcheck.io/api/public?check="

\* f"https://leakcheck.io/api/public?check={email}"
BreachUrl(email) == [endpoint |-> BreachEndpoint, check |-> email]

\* the two values the function returns besides a non-empty list
ReturnNone    == [isNone |-> TRUE,  list |-> <<>>]
ReturnList(l) == [isNone |-> FALSE, list |-> l]

\* source.get('name') if isinstance(source, dict) else source
SourceName(source) ==
    IF source.type = "dict" THEN Get(source.fields, "name", None)
    ELSE source.value

RealBreach(source) ==
    [Name |-> SourceName(source), BreachDate |-> "2021-01-01",
     DataClasses |-> <<"Email", "Password">>,
     Description |-> "Public Database Leak"]

\* Python truth value of data.get('success') and of data.get('sources')
SuccessTruthy(body) == body.success = "true"

SourcesTruthy(body) ==
    \/ body.sources.type = "number"
    \/ body.sources.type = "list" /\ body.sources.items # <<>>

get_real_breaches(email, response) ==
    IF response.raises THEN ReturnNone                         \* requests.get raises
    ELSE IF response.body.type = "invalid" THEN ReturnNone     \* response.json() raises
    ELSE IF response.body.type # "object" THEN ReturnNone      \* data.get raises
    ELSE IF SuccessTruthy(response.body) /\ SourcesTruthy(response.body)
         THEN IF response.body.sources.type # "list"
              THEN ReturnNone                                  \* the for loop raises
              ELSE ReturnList([i \in DOMAIN response.body.sources.items |->
                                  RealBreach(response.body.sources.items[i])])
         ELSE ReturnList(<<>>)

\* not breaches
IsFalsy(ret) == ret.isNone \/ ret.list = <<>>

----------------------------------------------------------------------------
\* Behaviours of the breach directory.

SourceEntries ==
    { [type |-> "str",  value |-> "Dropbox"],
      [type |-> "str",  value |-> "LinkedIn"],
      [type |-> "dict", fields |-> [name |-> "Canva", date |-> "2019-05"]],
      [type |-> "dict", fields |-> [date |-> "2020-01"]] }

NoSources == [type |-> "absent", items |-> <<>>]

SourcesValues ==
    {NoSources, [type |-> "number", items |-> <<>>]} \cup
    {[type |-> "list", items |-> l] : l \in SeqsUpTo(SourceEntries, MaxSources)}

BreachRaises ==
    [raises |-> TRUE, body |-> [type |-> "invalid", success |-> "absent", sources |-> NoSources]]

BreachResponses ==
    {BreachRaises} \cup
    {[raises |-> FALSE, body |-> [type |-> t, success |-> "absent", sources |-> NoSources]] :
        t \in {"invalid", "array"}} \cup
    {[raises |-> FALSE, body |-> [type |-> "object", success |-> su, sources |-> so]] :
        su \in {"absent", "true", "false"}, so \in SourcesValues}

DemoEmail == "demo@test.com"

Emails == {DemoEmail, "Demo@Test.com", "alice@example.org"}

----------------------------------------------------------------------------
\* risk_score = calculate_risk(breaches) if breaches else 0        (line 172)
RiskScore(ret) == IF IsFalsy(ret) THEN 0 ELSE calculate_risk(ret.list)

----------------------------------------------------------------------------
\* Values of the variables of a component that a specification does not run.

PwnedIdle ==
    /\ p_password = <<>>
    /\ p_res = RangeRaises
    /\ p_request = <<>>
    /\ p_ret = 0
    /\ p_pc = "idle"

RiskIdle ==
    /\ r_breaches = ReturnNone
    /\ r_ret = [calculate_risk |-> 0, risk_score |-> 0]
    /\ r_pc = "idle"

BreachIdle ==
    /\ b_email = ""
    /\ b_response = BreachRaises
    /\ b_ret = ReturnNone
    /\ b_pc = "idle"

----------------------------------------------------------------------------
\* SpecPwned: one call check_password_pwned(p_password) while the range
\* endpoint behaves as p_res.  p_request collects the URLs requested.

CallCheckPasswordPwned ==
    /\ p_pc = "call"
    /\ p_request' = Append(p_request, RangeUrl(p_password))
    /\ p_ret' = check_password_pwned(p_password, p_res)
    /\ p_pc' = "done"
    /\ UNCHANGED <<p_password, p_res, appVars, riskVars, breachVars>>

----------------------------------------------------------------------------
\* SpecRisk: calculate_risk and the expression of line 172 applied to one
\* breach list (or lookup outcome).  A record may lack the DataClasses key.

Tags == {"Passwords", "Email", "Phone", "Password"}

RiskRecords ==
    {[Name |-> n, BreachDate |-> "2021-01-01", DataClasses |-> t,
      Description |-> "Public Database Leak"] :
        n \in {"A", "B"}, t \in SeqsUpTo(Tags, MaxTags)} \cup
    {[Name |-> n, BreachDate |-> "2021-01-01",
      Description |-> "Public Database Leak"] : n \in {"A", "B"}}

RiskInputs ==
    {ReturnNone, ReturnList(get_mock_breaches)} \cup
    {ReturnList(l) : l \in SeqsUpTo(RiskRecords, MaxBreaches)}

\* calculate_risk(r_breaches); the script never hands it None
CallCalculateRisk ==
    /\ r_pc = "call"
    /\ ~r_breaches.isNone
    /\ r_ret' = [r_ret EXCEPT !.calculate_risk = calculate_risk(r_breaches.list)]
    /\ r_pc' = "called"
    /\ UNCHANGED <<r_breaches, appVars, pwnedVars, breachVars>>

\* line 172 on the same value
ComputeRiskScore ==
    /\ r_pc \in {"call", "called"}
    /\ r_pc = "call" => r_breaches.isNone
    /\ r_ret' = [r_ret EXCEPT !.risk_score = RiskScore(r_breaches)]
    /\ r_pc' = "done"
    /\ UNCHANGED <<r_breaches, appVars, pwnedVars, breachVars>>

----------------------------------------------------------------------------
\* SpecBreach: one call get_real_breaches(b_email) while the breach
\* directory behaves as b_response.

CallGetRealBreaches ==
    /\ b_pc = "call"
    /\ b_ret' = get_real_breaches(b_email, b_response)
    /\ b_pc' = "done"
    /\ UNCHANGED <<b_email, b_response, appVars, pwnedVars, riskVars>>

----------------------------------------------------------------------------
\* Spec: the Streamlit session.  Every action is one interaction followed by
\* one complete run of the script.

\* what the script renders while session_state has no 'run' (line 263)
LandingPage ==
    [page |-> "landing", banner |-> "none", sim_caption |-> FALSE,
     total_breaches |-> 0, delta |-> "none", data_source |-> "none",
     forensic_log |-> <<>>, timeline |-> <<>>,
     pw_icon |-> "none", pw_msg |-> "none",
     pdf |-> <<>>, download_button |-> FALSE]

NoRequests == [breach |-> <<>>, range |-> <<>>]

NotConsulted == [breach |-> BreachRaises, range |-> RangeRaises]

\* variant: the flag follows the button instead of staying set
SessionRunNotSticky(flag, pressed) == pressed

\* if st.button("INITIATE SCAN"): st.session_state['run'] = True
SessionRun(flag, pressed) == flag \/ pressed

\* variant: the fallback does not look at the email
UseFallbackAnyEmail(ret, email) == IsFalsy(ret)

\* if not breaches and email_input == "demo@test.com"
UseFallback(ret, email) == IsFalsy(ret) /\ email = DemoEmail

\* ALERT BANNER
Banner(score) ==
    IF score > 50 THEN "error: CRITICAL THREAT DETECTED"
    ELSE IF score > 0 THEN "warning: MODERATE RISK"
    ELSE "success: SYSTEM SECURE: No data breaches found."

\* tab3, left column
PwIcon(n) == IF n > 0 THEN "warning sign" ELSE "check mark"

\* tab3, right column
PwMsg(n) ==
    IF n > 0 THEN "error: exposed in global data breaches, CHANGE IMMEDIATELY"
    ELSE IF n = 0 THEN "success: NOT been found in known leaks"
    ELSE "warning: Could not connect to analysis server."

\* [b['Name'] for b in breaches]
Names(bs) == [i \in DOMAIN bs |-> bs[i].Name]

\* generate_pdf(email, score, breaches): the report written and then offered
GeneratePdf(email, score, bs) ==
    [target |-> email, risk_score |-> score, history |-> Names(bs)]

\* The body of "if st.session_state.get('run'):" with the breach directory
\* behaving as bresp and the range endpoint as rresp.
Dashboard(email, password, export, bresp, rresp) ==
    LET ret     == get_real_breaches(email, bresp)
        sim     == UseFallback(ret, email)
        sel     == IF sim THEN ReturnList(get_mock_breaches) ELSE ret
        score   == RiskScore(sel)
        checked == password # <<>>
        n       == IF checked THEN check_password_pwned(password, rresp) ELSE 0
        shown   == IF IsFalsy(sel) THEN <<>> ELSE sel.list
    IN  /\ remote' = [breach |-> bresp, range |-> rresp]
        /\ net' = [breach |-> <<BreachUrl(email)>>,
                   range  |-> IF checked THEN <<RangeUrl(password)>> ELSE <<>>]
        /\ live' = ret
        /\ breaches' = sel
        /\ is_sim' = sim
        /\ risk_score' = score
        /\ leaks' = n
        /\ ui' = [page |-> "dashboard",
                  banner |-> Banner(score),
                  sim_caption |-> sim,
                  total_breaches |-> Len(shown),
                  delta |-> IF score > 50 THEN "High Risk" ELSE "Safe",
                  data_source |-> IF sim THEN "Simulation" ELSE "Live API",
                  forensic_log |-> Names(shown),
                  timeline |-> Names(shown),
                  pw_icon |-> IF checked THEN PwIcon(n) ELSE "none",
                  pw_msg |-> IF checked THEN PwMsg(n)
                             ELSE "info: Enter a password in the sidebar",
                  pdf |-> IF export THEN <<GeneratePdf(email, score, shown)>> ELSE <<>>,
                  download_button |-> export]

Landing ==
    /\ remote' = NotConsulted
    /\ net' = NoRequests
    /\ live' = ReturnNone
    /\ breaches' = ReturnNone
    /\ is_sim' = FALSE
    /\ risk_score' = 0
    /\ leaks' = 0
    /\ ui' = LandingPage

\* behaviours of the two services that a session meets
AppBreachResponses ==
    { BreachRaises,
      [raises |-> FALSE, body |-> [type |-> "invalid", success |-> "absent", sources |-> NoSources]],
      [raises |-> FALSE, body |-> [type |-> "object", success |-> "false", sources |-> NoSources]],
      [raises |-> FALSE, body |-> [type |-> "object", success |-> "true",
          sources |-> [type |-> "list", items |-> <<>>]]],
      [raises |-> FALSE, body |-> [type |-> "object", success |-> "true",
          sources |-> [type |-> "list", items |-> <<[type |-> "str", value |-> "Dropbox"]>>]]],
      [raises |-> FALSE, body |-> [type |-> "object", success |-> "true",
          sources |-> [type |-> "list", items |->
             <<[type |-> "dict", fields |-> [name |-> "Canva", date |-> "2019-05"]],
               [type |-> "str", value |-> "LinkedIn"],
               [type |-> "str", value |-> "Dropbox"]>>]]] }

AppRangeResponses ==
    { RangeRaises,
      [raises |-> FALSE, status_code |-> 404, text |-> <<>>],
      [raises |-> FALSE, status_code |-> 200,
       text |-> Suffix(PwPassword123) \o <<":">> \o <<"5","0","0","0","0">>],
      [raises |-> FALSE, status_code |-> 200,
       text |-> OtherSuffix \o <<":">> \o <<"3","7">> \o <<"\n">>
                \o Suffix(PwPass590) \o <<":">> \o <<"3","7">>],
      [raises |-> FALSE, status_code |-> 200, text |-> <<"F","F">>] }

\* one run of the script after the interaction ev
Rerun(ev, email, password, scan, export) ==
    /\ event' = ev
    /\ email_input' = email
    /\ pass_input' = password
    /\ run' = SessionRun(run, scan)
    /\ IF SessionRun(run, scan)
       THEN \E bresp \in AppBreachResponses :
            \E rresp \in (IF password # <<>> THEN AppRangeResponses ELSE {RangeRaises}) :
                Dashboard(email, password, export, bresp, rresp)
       ELSE Landing
    /\ UNCHANGED <<pwnedVars, riskVars, breachVars>>

EditEmail ==
    \E e \in Emails \ {email_input} :
        Rerun("email", e, pass_input, FALSE, FALSE)

\* the passwords typed in a session; <<>> is the empty input
AppPasswords == {<<>>, PwPassword123, PwPass590}

EditPassword ==
    \E p \in AppPasswords \ {pass_input} :
        Rerun("password", email_input, p, FALSE, FALSE)

\* the sidebar, and the scan button in it, is rendered on both pages
PressScan ==
    /\ ui.page \in {"landing", "dashboard"}
    /\ Rerun("scan", email_input, pass_input, TRUE, FALSE)

\* the export button is rendered on the dashboard only
PressExport ==
    /\ ui.page = "dashboard"
    /\ Rerun("export", email_input, pass_input, FALSE, TRUE)

\* the download button is rendered only by the rerun of an export
PressDownload ==
    /\ ui.download_button
    /\ Rerun("download", email_input, pass_input, FALSE, FALSE)

\* the first run of the script in a fresh session
AppInit ==
    /\ run = FALSE
    /\ email_input = DemoEmail
    /\ pass_input = <<>>
    /\ event = "open"
    /\ remote = NotConsulted
    /\ net = NoRequests
    /\ live = ReturnNone
    /\ breaches = ReturnNone
    /\ is_sim = FALSE
    /\ risk_score = 0
    /\ leaks = 0
    /\ ui = LandingPage

----------------------------------------------------------------------------
\* The specifications.

Init == AppInit /\ PwnedIdle /\ RiskIdle /\ BreachIdle

Next == EditEmail \/ EditPassword \/ PressScan \/ PressExport \/ PressDownload

Spec == Init /\ [][Next]_vars

InitPwned ==
    /\ AppInit /\ RiskIdle /\ BreachIdle
    /\ p_password \in Passwords
    /\ p_res \in RangeResponses
    /\ p_request = <<>>
    /\ p_ret = 0
    /\ p_pc = "call"

NextPwned == CallCheckPasswordPwned

SpecPwned == InitPwned /\ [][NextPwned]_vars

InitRisk ==
    /\ AppInit /\ PwnedIdle /\ BreachIdle
    /\ r_breaches \in RiskInputs
    /\ r_ret = [calculate_risk |-> 0, risk_score |-> 0]
    /\ r_pc = "call"

NextRisk == CallCalculateRisk \/ ComputeRiskScore

SpecRisk == InitRisk /\ [][NextRisk]_vars

InitBreach ==
    /\ AppInit /\ PwnedIdle /\ RiskIdle
    /\ b_email \in Emails
    /\ b_response \in BreachResponses
    /\ b_ret = ReturnNone
    /\ b_pc = "call"

NextBreach == CallGetRealBreaches

SpecBreach == InitBreach /\ [][NextBreach]_vars

----------------------------------------------------------------------------
\* Reference readings used by the properties below.  They are written from
\* the statements, not from the operators above.

UpperHexChars ==
    {"0","1","2","3","4","5","6","7","8","9","A","B","C","D","E","F"}

\* the uppercase 40-character digest of a password
Digest(password) == Upper(Sha1Hex(password))

\* its first 5 and its last 35 characters
DigestHead(password) == SubSeq(Digest(password), 1, 5)
DigestTail(password) == SubSeq(Digest(password), 6, 40)

\* the part of a requested URL that follows the fixed endpoint
UrlParam(url) == SubSeq(url, Len(RangeEndpoint) + 1, Len(url))

ColonAt(line) == {i \in DOMAIN line : line[i] = ":"}

\* SUFFIX:COUNT with exactly one colon and a decimal count
WellFormedLine(line) ==
    /\ Cardinality(ColonAt(line)) = 1
    /\ \E c \in ColonAt(line) :
          /\ c < Len(line)
          /\ \A i \in (c + 1)..Len(line) : line[i] \in Digits

LineSuffix(line) ==
    LET c == CHOOSE i \in ColonAt(line) : TRUE IN SubSeq(line, 1, c - 1)

RECURSIVE Decimal(_)
Decimal(s) ==
    IF s = <<>> THEN 0
    ELSE 10 * Decimal(SubSeq(s, 1, Len(s) - 1)) + DigitVal(s[Len(s)])

LineCount(line) ==
    LET c == CHOOSE i \in ColonAt(line) : TRUE
    IN  Decimal(SubSeq(line, c + 1, Len(line)))

\* the lines of the response the call received
ReceivedLines == SplitLines(p_res.text)

\* indices of the received lines whose suffix is the password's
Matching ==
    {i \in DOMAIN ReceivedLines :
        /\ ColonAt(ReceivedLines[i]) # {}
        /\ LineSuffix(ReceivedLines[i]) = DigestTail(p_password)}

FirstMatching == CHOOSE i \in Matching : \A j \in Matching : i <= j

UsableResponse == ~p_res.raises /\ p_res.status_code = 200

\* C1: check_password_pwned never reports 0 for a query that failed: the
\* result is 0 only if a range response was obtained (status 200) and
\* scanned and no line reports the password's suffix (with a count other
\* than 0), and whenever the request raised or the response is not a
\* successful one the result is the failure sentinel -1.
C1_NoZeroOnFailure ==
    p_pc = "done" =>
        /\ p_ret = 0 =>
              /\ UsableResponse
              /\ Matching # {} =>
                    /\ WellFormedLine(ReceivedLines[FirstMatching])
                    /\ LineCount(ReceivedLines[FirstMatching]) = 0
        /\ ~UsableResponse => p_ret = PwnedFailure

\* C2: for a received status-200 response whose lines are all well-formed
\* SUFFIX:COUNT pairs, the result is the count of the first line whose
\* suffix equals, case-sensitively, the last 35 characters of the uppercase
\* digest, and 0 when no line has that suffix.
C2_ReturnsFirstMatchingCount ==
    ( /\ p_pc = "done"
      /\ UsableResponse
      /\ \A i \in DOMAIN ReceivedLines : WellFormedLine(ReceivedLines[i]) )
    => p_ret = IF Matching = {} THEN 0
               ELSE LineCount(ReceivedLines[FirstMatching])

\* a two-line response: the first line carries another suffix, the second
\* the password's, and the call returned the second line's count 37
C2_Witness ==
    /\ p_pc = "done"
    /\ UsableResponse
    /\ Len(ReceivedLines) = 2
    /\ \A i \in DOMAIN ReceivedLines : WellFormedLine(ReceivedLines[i])
    /\ Matching = {2}
    /\ p_ret = 37

PasswordChecked == run /\ net.range # <<>>

SafeIcon == "check mark"
SafeMsg  == "success: NOT been found in known leaks"

\* C4: with a password supplied and the scan run, the password tab shows
\* three distinct states: what is rendered for the failure sentinel (icon
\* and message) differs from what is rendered for a verified-safe result,
\* and a count above 0 is never rendered as safe.
C4_ThreePasswordStates ==
    PasswordChecked =>
        /\ leaks = 0 => ui.pw_icon = SafeIcon /\ ui.pw_msg = SafeMsg
        /\ leaks = PwnedFailure => ui.pw_icon # SafeIcon /\ ui.pw_msg # SafeMsg
        /\ leaks > 0 => ui.pw_icon # SafeIcon /\ ui.pw_msg # SafeMsg

\* the outcome of the live lookup of the last rerun
LiveFailure == live.isNone
LiveEmpty   == ~live.isNone /\ live.list = <<>>

\* the weights of the mock dataset, record by record
MockWeightSum == (10 + 30 + 15) + (10 + 15 + 15) + (10 + 30) + (10 + 15 + 15)

MockRecords == {get_mock_breaches[i] : i \in DOMAIN get_mock_breaches}

\* C5: is_sim holds exactly when the email is the demo identifier and the
\* live lookup returned FAILURE or EMPTY; then the breach list is the mock
\* dataset in its order and the score is its clamped weight sum; otherwise
\* the list is the live result without any mock record, so another email
\* whose lookup returned EMPTY has an empty list and score 0.
C5_FallbackOnlyForDemo ==
    run =>
        /\ is_sim <=> (email_input = "demo@test.com" /\ (LiveFailure \/ LiveEmpty))
        /\ is_sim =>
              /\ breaches = ReturnList(get_mock_breaches)
              /\ risk_score = Min(MockWeightSum, 100)
              /\ ui.total_breaches = 4
        /\ ~is_sim =>
              /\ breaches = live
              /\ \A i \in DOMAIN breaches.list : breaches.list[i] \notin MockRecords
        /\ (~is_sim /\ LiveEmpty) => breaches.list = <<>> /\ risk_score = 0

\* the lookup for the demo email failed and the rerun fell back on the
\* mock dataset
C5_Witness ==
    /\ run
    /\ email_input = "demo@test.com"
    /\ LiveFailure
    /\ is_sim
    /\ Len(breaches.list) = 4
    /\ risk_score = 100

\* C6: calculate_risk returns a value in 0..100 for every breach list, and
\* so does the risk score of line 172 for every lookup outcome, FAILURE
\* and EMPTY included.
C6_ScoreInRange ==
    r_pc # "call" =>
          /\ r_ret.calculate_risk \in 0..100
          /\ r_ret.risk_score \in 0..100

\* number of occurrences of tag t over all records of the list bs
RECURSIVE TagCount(_, _)
TagCount(bs, t) ==
    IF bs = <<>> THEN 0
    ELSE LET b == bs[Len(bs)]
             tags == IF "DataClasses" \in DOMAIN b THEN b.DataClasses ELSE <<>>
         IN  Cardinality({j \in DOMAIN tags : tags[j] = t})
             + TagCount(SubSeq(bs, 1, Len(bs) - 1), t)

AllTags(bs) ==
    UNION {IF "DataClasses" \in DOMAIN bs[i]
           THEN {bs[i].DataClasses[j] : j \in DOMAIN bs[i].DataClasses}
           ELSE {} : i \in DOMAIN bs}

RECURSIVE SumOver(_, _)
SumOver(bs, tagset) ==
    IF tagset = {} THEN 0
    ELSE LET t == CHOOSE x \in tagset : TRUE
             w == IF t = "Passwords" THEN 30
                  ELSE IF t = "Email" THEN 10
                  ELSE IF t = "Phone" THEN 50
                  ELSE 15
         IN  w * TagCount(bs, t) + SumOver(bs, tagset \ {t})

\* min(100, sum of the weights of all tag occurrences)
ExpectedScore(bs) == Min(100, SumOver(bs, AllTags(bs)))

\* the list produced by a scoring run whose weight sum exceeds 100
C6_Witness ==
    /\ r_pc = "done"
    /\ ~r_breaches.isNone
    /\ r_breaches.list # get_mock_breaches
    /\ SumOver(r_breaches.list, AllTags(r_breaches.list)) > 100
    /\ r_ret.calculate_risk = 100
    /\ r_ret.risk_score = 100

IndexPermutations(n) == {f \in [1..n -> 1..n] : \A i, j \in 1..n : f[i] = f[j] => i = j}

Reverse(seq) == [i \in DOMAIN seq |-> seq[Len(seq) + 1 - i]]

\* the same records with their tags reversed and their other fields changed
Relabelled(bs) ==
    [i \in DOMAIN bs |->
        IF "DataClasses" \in DOMAIN bs[i]
        THEN [Name |-> "other", BreachDate |-> "1999-12-31",
              Description |-> "", DataClasses |-> Reverse(bs[i].DataClasses)]
        ELSE [Name |-> "other", BreachDate |-> "1999-12-31", Description |-> ""]]

\* C7: calculate_risk returns min(100, sum of weight(tag) over every tag
\* occurrence of every record), weight being 30, 10, 50 for exactly
\* "Passwords", "Email", "Phone" and 15 for any other tag; so the empty
\* list scores 0, a record without data classes adds 0, and reordering the
\* records or tags, or changing the other fields, leaves the result alone.
C7_ScoreIsWeightSum ==
    (r_pc # "call" /\ ~r_breaches.isNone) =>
        LET bs == r_breaches.list
        IN  /\ r_ret.calculate_risk = ExpectedScore(bs)
            /\ bs = <<>> => r_ret.calculate_risk = 0
            /\ \A f \in IndexPermutations(Len(bs)) :
                  calculate_risk([i \in DOMAIN bs |-> bs[f[i]]]) = r_ret.calculate_risk
            /\ calculate_risk(Relabelled(bs)) = r_ret.calculate_risk

\* a scored list of two records: one without data classes, one tagged with
\* the near-match "Password" (15) and with "Passwords" (30)
C7_Witness ==
    /\ r_pc = "called"
    /\ Len(r_breaches.list) = 2
    /\ "DataClasses" \notin DOMAIN r_breaches.list[1]
    /\ "DataClasses" \in DOMAIN r_breaches.list[2]
    /\ r_breaches.list[2].DataClasses = <<"Password", "Passwords">>
    /\ r_ret.calculate_risk = 45

\* readings of a behaviour of the breach directory
TransportError == b_response.raises

\* a body that is not JSON, not a JSON object, lacks the success flag, or
\* reports success without a list of sources
Malformed ==
    /\ ~b_response.raises
    /\ \/ b_response.body.type # "object"
       \/ b_response.body.success = "absent"
       \/ b_response.body.success = "true" /\ b_response.body.sources.type # "list"

\* a well-formed response that reports no match
NoMatches ==
    /\ ~TransportError /\ ~Malformed
    /\ \/ b_response.body.success = "false"
       \/ b_response.body.sources.items = <<>>

EntryName(entry) ==
    IF entry.type = "str" THEN entry.value
    ELSE IF "name" \in DOMAIN entry.fields THEN entry.fields.name ELSE None

\* C8: get_real_breaches returns FAILURE (None) on a transport error, a
\* timeout or a malformed response; EMPTY (the empty list) only on a
\* well-formed response that reports no matches; and otherwise a non-empty
\* list with one record per source entry, in order, named after the entry,
\* dated 2021-01-01 and classed Email, Password.
C8_ThreeOutcomes ==
    b_pc = "done" =>
        /\ (TransportError \/ Malformed) => b_ret.isNone
        /\ (~b_ret.isNone /\ b_ret.list = <<>>) => NoMatches
        /\ (~TransportError /\ ~Malformed /\ ~NoMatches) =>
              /\ ~b_ret.isNone
              /\ Len(b_ret.list) = Len(b_response.body.sources.items)
              /\ Len(b_ret.list) > 0
              /\ \A i \in DOMAIN b_ret.list :
                    /\ b_ret.list[i].Name = EntryName(b_response.body.sources.items[i])
                    /\ b_ret.list[i].BreachDate = "2021-01-01"
                    /\ b_ret.list[i].DataClasses = <<"Email", "Password">>

\* C9: for an email other than the demo identifier the SYSTEM SECURE banner
\* (score 0, no breach, source Live API) is shown only when the live lookup
\* completed and reported no match, never when it returned FAILURE.
C9_SecureOnlyWhenVerified ==
    ( /\ run
      /\ email_input # "demo@test.com"
      /\ ui.banner = "success: SYSTEM SECURE: No data breaches found." )
    => ~LiveFailure

\* what a rerun with the flag set must have done
LookupsOfRerun ==
    /\ ui.page = "dashboard"
    /\ net.breach = <<[endpoint |-> BreachEndpoint, check |-> email_input]>>
    /\ Len(net.range) = (IF pass_input = <<>> THEN 0 ELSE 1)
    /\ pass_input # <<>> =>
          net.range = <<RangeEndpoint \o DigestHead(pass_input)>>

\* C10: the flag 'run' starts unset, is set only by the INITIATE SCAN
\* button and is never cleared; a rerun with the flag unset performs no
\* lookup and shows the landing page; every rerun with the flag set, also
\* one caused by editing a field or by the export button, performs the
\* breach lookup for the current email, and the password lookup exactly
\* when the password input is not empty.
C10_RunFlagGatesLookups ==
    /\ ~run
    /\ [][(run => run') /\ ((~run /\ run') => event' = "scan")]_vars
    /\ [](~run => (ui.page = "landing" /\ net = NoRequests))
    /\ [](run => LookupsOfRerun)

\* after the scan, a rerun caused by the export button repeated both
\* lookups
C10_Witness ==
    /\ run
    /\ event = "export"
    /\ pass_input # <<>>
    /\ Len(net.breach) = 1
    /\ Len(net.range) = 1

====
